---- MODULE Spec2Model ----
(***************************************************************************)
(* A model of google_analytics_mcp: the configuration singleton            *)
(* (config.py), credential resolution (auth.py), the shared helpers        *)
(* (helpers.py), the admin and data tools (tools/admin.py, tools/data.py)  *)
(* and the tool layer registered with the MCP host (server.py).            *)
(*                                                                         *)
(* A tool call is a coroutine on the host's single event-loop thread.  It  *)
(* runs without interruption up to its next await; the only await of a     *)
(* tool is run_sync, which hands one blocking client method to a worker    *)
(* thread.  A call is therefore three kinds of step: Invoke (entry up to   *)
(* the first run_sync), WorkerCall (the client method, on a worker thread) *)
(* and Resume (from the await to the next run_sync or to the return).      *)
(***************************************************************************)
EXTENDS Integers, Sequences, FiniteSets, TLC

VARIABLES
    environ,        \* os.environ restricted to GA_CREDENTIALS, GA_CREDENTIALS_PATH
    files,          \* the file system: path -> "absent" | "valid" | "garbage"
    _config,        \* config._config, the module-level singleton
    envReads,       \* number of Config.from_env() evaluations so far
    returned,       \* the direct get_config() calls so far: environment and outcome
    tasks,          \* the tool calls: task -> its coroutine's state
    secrets,        \* remote: Measurement Protocol secrets of the data stream
    response,       \* a RunReportResponse handed to _format_report
    report,         \* what _format_report returned for it
    reportArgs,     \* the arguments of a data.run_report call
    reportRequest   \* the RunReportRequest built from them

vars == << environ, files, _config, envReads, returned, tasks, secrets,
           response, report, reportArgs, reportRequest >>

\* ------------------------------------------------------------------ bounds
MaxTasks == 1       \* tool calls per behaviour of Spec, over the whole catalog
MaxConcurrent == 2  \* tool calls per behaviour of SpecConcurrent
MaxCalls == 3       \* direct get_config() calls per behaviour
MaxItems == 2       \* resources the remote holds in a listed collection
PageSize == 1       \* resources the remote returns per page
MaxHeaders == 1     \* dimension headers, and metric headers, of a report
MaxRows == 2        \* rows of a report

None == "None"               \* Python's None, where the value is otherwise a string
Absent == [kind |-> "none"]  \* Python's None, where the value is otherwise a record
Tasks == 1..MaxConcurrent

\* ------------------------------------------------------------- outcomes
Return(v) == [kind |-> "return", value |-> v]
Raise(type, msg) == [kind |-> "raise", type |-> type, msg |-> msg]
IsRaise(o) == o.kind = "raise"

\* ---------------------------------------------------------------- auth.py
SETUP_GUIDE == "Google Analytics MCP is not configured yet. Follow these steps: ..."

NotConfiguredError == Raise("NotConfiguredError", SETUP_GUIDE)

\* -------------------------------------------------------------- config.py
DEFAULT_CREDENTIALS_PATH == "/home/user/.google-analytics-mcp/credentials.json"

\* The payloads GA_CREDENTIALS is given: empty, not JSON, JSON that is no
\* service-account key, and a service-account key.
SA_KEY == "{\"type\": \"service_account\", ...}"
Payloads == {"", "{not json", "{}", SA_KEY}
\* The values GA_CREDENTIALS_PATH is given.
PathValues == {"~/ga.json", "~nouser/ga.json"}
Paths == {DEFAULT_CREDENTIALS_PATH, "/home/user/ga.json"}

Environs == [GA_CREDENTIALS : Payloads \cup {None},
             GA_CREDENTIALS_PATH : PathValues \cup {None}]

\* os.environ.get(key, default)
EnvGet(env, key, default) == IF env[key] = None THEN default ELSE env[key]

\* Path.expanduser(): "~" is the user's home, "~name" the home of user name,
\* and a RuntimeError when that home can not be determined.
ExpandUser(p) ==
    CASE p = "~/ga.json" -> Return("/home/user/ga.json")
      [] p = "~nouser/ga.json" -> Raise("RuntimeError", "Could not determine home directory.")
      [] OTHER -> Return(p)

\* Config.from_env(): the n-th Config object ever constructed has oid n, which
\* tells two equal Config values apart as objects.
FromEnv(env, n) ==
    LET path == ExpandUser(EnvGet(env, "GA_CREDENTIALS_PATH", DEFAULT_CREDENTIALS_PATH))
    IN  IF IsRaise(path) THEN path
        ELSE Return([oid |-> n,
                     credentials_json |-> EnvGet(env, "GA_CREDENTIALS", None),
                     credentials_path |-> path.value])

\* get_config without its `if _config is None`
NeedsInitAlways(cfg) == TRUE

\* `_config: Config | None = None`
NoConfig == Absent

\* `if _config is None`
NeedsInit(cfg) == cfg = NoConfig

\* get_config() called when the singleton is cfg, the environment env and n
\* Config objects were made before: the outcome, the singleton afterwards and
\* the number of times the environment was read.
GetConfig(cfg, env, n) ==
    IF NeedsInit(cfg)
    THEN LET made == FromEnv(env, n + 1)
         IN  [outcome |-> made,
              config |-> IF IsRaise(made) THEN cfg ELSE made.value,
              reads |-> 1]
    ELSE [outcome |-> Return(cfg), config |-> cfg, reads |-> 0]

\* ---------------------------------------------------------------- auth.py
\* Python truthiness of an optional string: None and "" are false.
Truthy(s) == s # None /\ s # ""

\* `SCOPES` of config.py
SCOPES == << "https://www.googleapis.com/auth/analytics.edit",
             "https://www.googleapis.com/auth/analytics.readonly" >>

\* A Credentials object: where it was loaded from, and the members
\* check_credentials reads.
Credentials(source) ==
    [source |-> source,
     service_account_email |-> "mcp@project.iam.gserviceaccount.com",
     project_id |-> "project",
     scopes |-> SCOPES]

\* json.loads(payload) followed by Credentials.from_service_account_info
CredentialsFromInfo(payload) ==
    CASE payload = SA_KEY -> Return(Credentials("GA_CREDENTIALS"))
      [] payload = "{}" ->
             Raise("ValueError", "Service account info was not in the expected format")
      [] OTHER -> Raise("JSONDecodeError", "Expecting property name enclosed in double quotes")

\* Credentials.from_service_account_file(path)
CredentialsFromFile(path, fs) ==
    IF fs[path] = "valid" THEN Return(Credentials(path))
    ELSE Raise("JSONDecodeError", "Expecting value")

\* get_credentials that never looks for a file
GetCredentialsInlineOnly(cfgOutcome, fs) ==
    IF IsRaise(cfgOutcome) THEN cfgOutcome
    ELSE IF Truthy(cfgOutcome.value.credentials_json)
         THEN CredentialsFromInfo(cfgOutcome.value.credentials_json)
         ELSE NotConfiguredError

\* get_credentials() after its get_config() call ended as cfgOutcome
GetCredentials(cfgOutcome, fs) ==
    IF IsRaise(cfgOutcome) THEN cfgOutcome
    ELSE LET cfg == cfgOutcome.value
         IN  IF Truthy(cfg.credentials_json)
             THEN CredentialsFromInfo(cfg.credentials_json)
             ELSE IF fs[cfg.credentials_path] # "absent"
                  THEN CredentialsFromFile(cfg.credentials_path, fs)
                  ELSE NotConfiguredError

\* The paths get_credentials tests with Path.exists(): the configured path,
\* and only when it gets past the inline payload.
Probed(cfgOutcome) ==
    IF IsRaise(cfgOutcome) \/ Truthy(cfgOutcome.value.credentials_json) THEN {}
    ELSE {cfgOutcome.value.credentials_path}

\* The status document of credentials that resolved.
Authenticated(c) ==
    [authenticated |-> TRUE,
     service_account_email |-> c.service_account_email,
     project_id |-> c.project_id,
     scopes |-> c.scopes]

\* check_credentials without its `except Exception`
CheckCredentialsUncaught(creds) ==
    IF IsRaise(creds) THEN creds ELSE Return(Authenticated(creds.value))

\* check_credentials(): `except Exception as e` turns whatever get_credentials
\* raised into a status document whose reason is str(e)
CheckCredentials(creds) ==
    IF IsRaise(creds)
    THEN Return([authenticated |-> FALSE, reason |-> creds.msg])
    ELSE Return(Authenticated(creds.value))

\* ------------------------------------------------------------- helpers.py
\* The texts a tool returns: a plain sentence, or format_json(data).
Plain(s) == [fmt |-> "plain", text |-> s]
FormatJson(data) == [fmt |-> "json", data |-> data]

\* proto_to_dict(msg)
ProtoToDict(msg) == [dict |-> msg]

\* run_sync(fn, ...): asyncio.to_thread runs fn on a worker thread
RunSyncThread == "worker"

\* with_setup_guide catching every exception
WithSetupGuideCatchAll(o) == IF IsRaise(o) THEN Return(Plain(o.msg)) ELSE o

\* with_setup_guide(fn): `except NotConfiguredError as e: return str(e)`
WithSetupGuide(o) ==
    IF IsRaise(o) /\ o.type = "NotConfiguredError" THEN Return(Plain(o.msg)) ELSE o

\* ------------------------------------------------------- the tool catalog
ListTools == {"list_accounts", "list_properties", "list_data_streams", "list_key_events",
              "list_custom_dimensions", "list_custom_metrics", "list_google_ads_links"}
CallTools == {"create_property", "get_property", "delete_property",
              "create_web_data_stream", "create_key_event", "create_google_ads_link"}
DataTools == {"run_report", "run_realtime_report", "get_metadata"}
DeleteTools == {"delete_data_stream", "delete_key_event"}
EnumTools == {"create_custom_dimension", "create_custom_metric"}
SecretTool == "get_measurement_protocol_secret"
Tools == ListTools \cup CallTools \cup DataTools \cup DeleteTools \cup EnumTools
             \cup {SecretTool, "get_tracking_snippet", "check_auth_status"}

\* The tools server.py decorates with @with_setup_guide.
Wrapped(tool) == tool \notin {"get_tracking_snippet", "check_auth_status"}

\* The members of the API's enumerations.
DimensionScope == {"DIMENSION_SCOPE_UNSPECIFIED", "EVENT", "USER", "ITEM"}
MetricScope == {"METRIC_SCOPE_UNSPECIFIED", "EVENT"}
MeasurementUnit == {"MEASUREMENT_UNIT_UNSPECIFIED", "STANDARD", "CURRENCY", "FEET", "METERS",
                    "KILOMETERS", "MILES", "MILLISECONDS", "SECONDS", "MINUTES", "HOURS"}

\* The arguments a call of tool is given: id is the account or property id,
\* sub the stream or key event id, scope and unit the enum-like strings.
Args(id, sub, scope, unit) == [id |-> id, sub |-> sub, scope |-> scope, unit |-> unit]
ArgsOf(tool) ==
    CASE tool \in DeleteTools -> {Args("123", s, "", "") : s \in {"7", "8"}}
      [] tool = SecretTool -> {Args("123", "7", "", "")}
      [] tool = "create_custom_dimension" ->
             {Args("123", "", s, "") : s \in {"EVENT", "USER", "INVALID"}}
      [] tool = "create_custom_metric" ->
             {Args("123", "", s, u) : s \in {"EVENT", "USER"}, u \in {"STANDARD", "INVALID"}}
      [] tool = "get_tracking_snippet" ->
             {Args(m, "", "", "") : m \in {"G-ABC123", "G-XYZ789"}}
      [] tool \in {"list_accounts", "check_auth_status"} -> {Args("", "", "", "")}
      [] OTHER -> {Args("123", "", "", "")}

\* ---------------------------------------------------------- tools/data.py
Min(a, b) == IF a < b THEN a ELSE b

\* zip(headers, values): pairs up to the shorter of the two
Zip(headers, values) ==
    [j \in 1..Min(Len(headers), Len(values)) |-> << headers[j], values[j] >>]

\* A dict that keeps the first pair of a key
RECURSIVE DictKeepFirst(_)
DictKeepFirst(pairs) ==
    IF pairs = << >> THEN << >>
    ELSE LET n == Len(pairs)
             d == DictKeepFirst(SubSeq(pairs, 1, n - 1))
         IN  [k \in DOMAIN d \cup {pairs[n][1]} |->
                 IF k \in DOMAIN d THEN d[k] ELSE pairs[n][2]]

\* dict(pairs): a later pair replaces an earlier one with the same key
RECURSIVE Dict(_)
Dict(pairs) ==
    IF pairs = << >> THEN << >>
    ELSE LET n == Len(pairs)
             d == Dict(SubSeq(pairs, 1, n - 1))
         IN  [k \in DOMAIN d \cup {pairs[n][1]} |->
                 IF k = pairs[n][1] THEN pairs[n][2] ELSE d[k]]

\* The values of one row: dimension values, then metric values.
RowValues(row) == row.dimension_values \o row.metric_values

\* _format_report(response)
FormatReport(resp) ==
    LET headers == resp.dimension_headers \o resp.metric_headers
    IN  [row_count |-> resp.row_count,
         headers |-> headers,
         rows |-> [i \in 1..Len(resp.rows) |-> Dict(Zip(headers, RowValues(resp.rows[i])))]]

\* The report responses _format_report is given: headers drawn from two names
\* (so that two headers can share one), rows of any length up to the headers',
\* each value labelled by what it is.
HeaderNames == {"country", "activeUsers"}
SeqsUpTo(S, n) == UNION {[1..k -> S] : k \in 0..n}
ValueAt(kind, j) == << kind, j >>
Row(nd, nm) == [dimension_values |-> [j \in 1..nd |-> ValueAt("US", j)],
                metric_values |-> [j \in 1..nm |-> ValueAt("42", j)]]
Rows == {Row(nd, nm) : nd \in 0..MaxHeaders, nm \in 0..MaxHeaders}
Responses ==
    [dimension_headers : SeqsUpTo(HeaderNames, MaxHeaders),
     metric_headers : SeqsUpTo(HeaderNames, MaxHeaders),
     rows : SeqsUpTo(Rows, MaxRows),
     row_count : {0, 250}]

\* The filter attached as soon as one of the two is given
FilterWantedEither(name, value) == Truthy(name) \/ Truthy(value)

\* The truth test of `if dimension_filter_name and dimension_filter_value`
FilterWanted(name, value) == Truthy(name) /\ Truthy(value)

\* The RunReportRequest data.run_report builds from its arguments.
RunReportRequest(a) ==
    [property |-> "properties/" \o a.property_id,
     dimensions |-> [j \in 1..Len(a.dimensions) |-> [name |-> a.dimensions[j]]],
     metrics |-> [j \in 1..Len(a.metrics) |-> [name |-> a.metrics[j]]],
     date_ranges |-> << [start_date |-> a.start_date, end_date |-> a.end_date] >>,
     limit |-> a.limit,
     offset |-> a.offset,
     dimension_filter |->
        IF FilterWanted(a.dimension_filter_name, a.dimension_filter_value)
        THEN << [filter |-> [field_name |-> a.dimension_filter_name,
                             string_filter |-> [value |-> a.dimension_filter_value,
                                                match_type |-> "EXACT"]]] >>
        ELSE << >>]

\* The arguments run_report is given; an optional string is None, "" or a text.
ReportArgs ==
    [property_id : {"123"},
     dimensions : SeqsUpTo(HeaderNames, MaxHeaders),
     metrics : SeqsUpTo(HeaderNames, MaxHeaders),
     start_date : {"28daysAgo"}, end_date : {"today"},
     dimension_filter_name : {None, "", "country"},
     dimension_filter_value : {None, "", "US"},
     limit : {1, 100}, offset : {0}]
DefaultReportArgs ==
    [property_id |-> "123", dimensions |-> << "country" >>, metrics |-> << "activeUsers" >>,
     start_date |-> "28daysAgo", end_date |-> "today",
     dimension_filter_name |-> None, dimension_filter_value |-> None,
     limit |-> 100, offset |-> 0]

\* ------------------------------------------- tools/admin.py, tools/data.py
\* The client method a tool hands to its first run_sync.
MethodOf(tool) ==
    CASE tool = "create_web_data_stream" -> "create_data_stream"
      [] tool = SecretTool -> "list_measurement_protocol_secrets"
      [] OTHER -> tool

\* The resource path the request names.
ResourceOf(tool, a) ==
    CASE tool = "list_accounts" -> ""
      [] tool = "list_properties" -> "parent:accounts/" \o a.id
      [] tool = "create_property" -> "accounts/" \o a.id
      [] tool = "delete_data_stream" -> "properties/" \o a.id \o "/dataStreams/" \o a.sub
      [] tool = "delete_key_event" -> "properties/" \o a.id \o "/keyEvents/" \o a.sub
      [] tool = SecretTool -> "properties/" \o a.id \o "/dataStreams/" \o a.sub
      [] tool = "get_metadata" -> "properties/" \o a.id \o "/metadata"
      [] tool = "run_report" -> RunReportRequest(DefaultReportArgs).property
      [] OTHER -> "properties/" \o a.id

Request(method, resource) == [method |-> method, resource |-> resource]

\* What a step of a coroutine ends in: the function returned or raised, or it
\* awaits run_sync(request).
Done(o) == [await |-> FALSE, out |-> o, request |-> Absent]
Await(req) == [await |-> TRUE, out |-> Absent, request |-> req]

\* The snippet with the measurement id left out of the gtag('config', ...) call
SnippetUrlOnly(measurement_id) ==
    "<!-- Google Analytics 4 -->\n"
    \o "<script async src=\"https://www.googletagmanager.com/gtag/js?id=" \o measurement_id
    \o "\"></script>\n<script>\n  window.dataLayer = window.dataLayer || [];\n"
    \o "  function gtag(){dataLayer.push(arguments);}\n  gtag('js', new Date());\n"
    \o "  gtag('config', '');\n</script>\n<!-- End Google Analytics 4 -->"

\* get_tracking_snippet(measurement_id): the f-string, the id put in as it is
Snippet(measurement_id) ==
    "<!-- Google Analytics 4 -->\n"
    \o "<script async src=\"https://www.googletagmanager.com/gtag/js?id=" \o measurement_id
    \o "\"></script>\n<script>\n  window.dataLayer = window.dataLayer || [];\n"
    \o "  function gtag(){dataLayer.push(arguments);}\n  gtag('js', new Date());\n"
    \o "  gtag('config', '" \o measurement_id
    \o "');\n</script>\n<!-- End Google Analytics 4 -->"

\* The enum strings passed on to the remote unchecked
PrefixUnchecked(tool, a, creds) ==
    CASE tool = "get_tracking_snippet" -> Done(Return(Snippet(a.id)))
      [] tool = "check_auth_status" -> Done(CheckCredentials(creds))
      [] OTHER -> IF IsRaise(creds) THEN Done(creds)
                  ELSE Await(Request(MethodOf(tool), ResourceOf(tool, a)))

\* `client = _client()` and whatever follows up to the first run_sync: the
\* enum lookups of create_custom_dimension and create_custom_metric raise
\* KeyError for a string that names no member.
Prefix(tool, a, creds) ==
    CASE tool = "get_tracking_snippet" -> Done(Return(Snippet(a.id)))
      [] tool = "check_auth_status" -> Done(CheckCredentials(creds))
      [] OTHER ->
           IF IsRaise(creds) THEN Done(creds)
           ELSE IF tool = "create_custom_dimension" /\ a.scope \notin DimensionScope
                THEN Done(Raise("KeyError", a.scope))
           ELSE IF tool = "create_custom_metric" /\ a.scope \notin MetricScope
                THEN Done(Raise("KeyError", a.scope))
           ELSE IF tool = "create_custom_metric" /\ a.unit \notin MeasurementUnit
                THEN Done(Raise("KeyError", a.unit))
           ELSE Await(Request(MethodOf(tool), ResourceOf(tool, a)))

\* A pager, as a list method returns it: the first page is fetched, the
\* resources after it are fetched page by page while the pager is iterated.
Pager(items) ==
    [first |-> SubSeq(items, 1, Min(PageSize, Len(items))),
     rest |-> SubSeq(items, PageSize + 1, Len(items))]
Followups(pager) == (Len(pager.rest) + PageSize - 1) \div PageSize

ApiError == Raise("PermissionDenied", "403 The caller does not have permission")

\* `[proto_to_dict(x) for x in pages]` when ok of the follow-up fetches succeed:
\* the list, or the failure of the first fetch that fails.
Iterate(pager, ok) ==
    IF ok < Followups(pager) THEN ApiError
    ELSE LET all == pager.first \o pager.rest
         IN  Return([j \in 1..Len(all) |-> ProtoToDict(all[j])])
\* The number of page fetches that iteration makes.
Fetches(pager, ok) == IF ok < Followups(pager) THEN ok + 1 ELSE ok
\* The thread the iteration, and so each of its fetches, runs on.
IterationThread == "loop"

SampleResponse ==
    [dimension_headers |-> << "country" >>, metric_headers |-> << "activeUsers" >>,
     rows |-> << Row(1, 1) >>, row_count |-> 250]

\* A failed client method tried again
OnFailureRetry(req, failure) == Await(req)

\* A failed delete taken for done
OnFailureDropped(req, failure) ==
    IF req.method \in DeleteTools THEN Done(Return(req.resource \o " deleted."))
    ELSE Done(failure)

\* `await run_sync(...)` stands in no try block: a failure of the client method
\* ends the function with that failure.
OnFailure(req, failure) == Done(failure)

\* The list of secrets taken for empty whatever it holds
HasSecretsNever(found) == FALSE

\* `if secrets` of get_measurement_protocol_secret
HasSecrets(found) == found # << >>

\* From the await of run_sync(req), which ended as resp, to the next run_sync
\* or the end of the function.
Continue(tool, a, req, resp, ok) ==
    IF IsRaise(resp) THEN OnFailure(req, resp)
    ELSE CASE tool \in ListTools -> Done(Iterate(resp.value, ok))
           [] tool \in DeleteTools ->
                Done(Return(IF tool = "delete_data_stream"
                            THEN "Data stream " \o a.sub \o " deleted."
                            ELSE "Key event " \o a.sub \o " deleted."))
           [] tool \in {"run_report", "run_realtime_report"} ->
                Done(Return(FormatReport(resp.value)))
           [] tool = "get_metadata" ->
                Done(Return([dimensions_count |-> Len(resp.value.dimensions),
                             metrics_count |-> Len(resp.value.metrics),
                             dimensions |-> resp.value.dimensions,
                             metrics |-> resp.value.metrics]))
           [] tool = SecretTool /\ req.method = "list_measurement_protocol_secrets" ->
                LET found == Iterate(resp.value, ok)
                IN  IF IsRaise(found) THEN Done(found)
                    ELSE IF HasSecrets(found.value) THEN Done(Return(found.value[1]))
                    ELSE Await(Request("create_measurement_protocol_secret", req.resource))
           [] OTHER -> Done(Return(ProtoToDict(resp.value)))

\* True of the responses that are pagers.
Paged(tool, req) ==
    tool \in ListTools \/ req.method = "list_measurement_protocol_secrets"

\* --------------------------------------------------------------- server.py
NoneFound(tool, a) ==
    CASE tool = "list_accounts" ->
           "No accounts found. Make sure you have access to at least one Google Analytics account."
      [] tool = "list_properties" -> "No properties found for account " \o a.id \o "."
      [] tool = "list_data_streams" -> "No data streams found for property " \o a.id \o "."
      [] tool = "list_key_events" -> "No key events found for property " \o a.id \o "."
      [] tool = "list_custom_dimensions" ->
           "No custom dimensions found for property " \o a.id \o "."
      [] tool = "list_custom_metrics" -> "No custom metrics found for property " \o a.id \o "."
      [] OTHER -> "No Google Ads links found for property " \o a.id \o "."

\* `if result`
IsEmptyInverted(result) == result # << >>

\* `if not result`
IsEmpty(result) == result = << >>

\* The body of the tool function of server.py, given how the function of
\* tools/admin.py, tools/data.py or auth.py it calls ended.
ServerTool(tool, a, o) ==
    IF IsRaise(o) THEN o
    ELSE CASE tool \in ListTools ->
                IF IsEmpty(o.value) THEN Return(Plain(NoneFound(tool, a)))
                ELSE Return(FormatJson(o.value))
           [] tool \in DeleteTools \cup {"get_tracking_snippet"} -> Return(Plain(o.value))
           [] OTHER -> Return(FormatJson(o.value))

\* The tool as registered: behind with_setup_guide where server.py says so.
Registered(tool, o) == IF Wrapped(tool) THEN WithSetupGuide(o) ELSE o

\* ------------------------------------------------------------ the machine
\* A coroutine: where it is (pc), the tool and its arguments, how the call's
\* get_config() ended (config) and its get_credentials() (creds), the paths
\* that tested for a file (probed), the request of its latest run_sync
\* (pending) and how that ended (resp), every request the call made of the
\* remote so far with the thread it was made on (reqs), and the outcomes of
\* its layers.
IdleTask == [pc |-> "idle", tool |-> None, args |-> Absent, config |-> Absent,
             creds |-> Absent, probed |-> {},
             pending |-> Absent, resp |-> Absent, reqs |-> << >>, admin |-> Absent,
             inner |-> Absent, outcome |-> Absent]

\* The coroutine after a step that ended as `step`: suspended in run_sync, or
\* finished, with the outcomes of its three layers (the function of
\* tools/ or auth.py, the tool function of server.py, the registered tool).
After(task, step) ==
    IF step.await
    THEN [task EXCEPT !.pc = "worker", !.pending = step.request]
    ELSE LET inner == ServerTool(task.tool, task.args, step.out)
         IN  [task EXCEPT !.pc = "done", !.admin = step.out, !.inner = inner,
                          !.outcome = Registered(task.tool, inner)]

Logged(req, thread) == [method |-> req.method, resource |-> req.resource, thread |-> thread]

Files == [Paths -> {"absent", "valid", "garbage"}]

\* No report is being formatted, no request being built.
Unset == Absent
NoReport ==
    response = Unset /\ report = Unset /\ reportArgs = Unset /\ reportRequest = Unset

Init ==
    /\ environ \in Environs
    /\ files \in Files
    /\ _config = NoConfig
    /\ envReads = 0
    /\ returned = << >>
    /\ tasks = [t \in Tasks |-> IdleTask]
    /\ secrets = << >>
    /\ NoReport

\* The host calls a tool: the coroutine runs on the event loop up to its first
\* run_sync, or to its end when it never gets there.
Invoke(t, tool, a) ==
    /\ tasks[t].pc = "idle"
    /\ \A u \in Tasks : u < t => tasks[u].pc # "idle"
    /\ LET gc == GetConfig(_config, environ, envReads)
           creds == GetCredentials(gc.outcome, files)
           local == tool = "get_tracking_snippet"
           started == [IdleTask EXCEPT !.tool = tool, !.args = a,
                                       !.config = IF local THEN Absent ELSE gc.outcome,
                                       !.creds = IF local THEN Absent ELSE creds,
                                       !.probed = IF local THEN {} ELSE Probed(gc.outcome)]
       IN  /\ tasks' = [tasks EXCEPT ![t] = After(started, Prefix(tool, a, creds))]
           /\ IF tool = "get_tracking_snippet"
              THEN UNCHANGED << _config, envReads >>
              ELSE /\ _config' = gc.config
                   /\ envReads' = envReads + gc.reads
    /\ UNCHANGED << environ, files, returned, secrets, response, report, reportArgs,
                    reportRequest >>

\* What the remote answers to a request that it accepts, and the secrets of
\* the data stream afterwards.
Answers(req, tool) ==
    CASE req.method = "list_measurement_protocol_secrets" ->
           {[value |-> Pager(secrets), secrets |-> secrets]}
      [] req.method = "create_measurement_protocol_secret" ->
           {[value |-> Len(secrets) + 1, secrets |-> Append(secrets, Len(secrets) + 1)]}
      [] tool \in ListTools ->
           {[value |-> Pager([j \in 1..n |-> j]), secrets |-> secrets] : n \in 0..MaxItems}
      [] tool \in {"run_report", "run_realtime_report"} ->
           {[value |-> SampleResponse, secrets |-> secrets]}
      [] tool = "get_metadata" ->
           {[value |-> [dimensions |-> << >>, metrics |-> << >>], secrets |-> secrets]}
      [] OTHER -> {[value |-> req.resource, secrets |-> secrets]}

\* The worker thread runs the client method: one request to the remote, which
\* answers it or fails it.
WorkerCall(t) ==
    /\ tasks[t].pc = "worker"
    /\ LET task == tasks[t]
           sent == [task EXCEPT !.pc = "resume",
                                !.reqs = Append(@, Logged(task.pending, RunSyncThread))]
       IN  \/ /\ tasks' = [tasks EXCEPT ![t] = [sent EXCEPT !.resp = ApiError]]
              /\ UNCHANGED secrets
           \/ \E ans \in Answers(task.pending, task.tool) :
                 /\ tasks' = [tasks EXCEPT ![t] = [sent EXCEPT !.resp = Return(ans.value)]]
                 /\ secrets' = ans.secrets
    /\ UNCHANGED << environ, files, _config, envReads, returned, response, report,
                    reportArgs, reportRequest >>

\* The follow-up page requests made while the coroutine iterates a pager.
PageRequests(task, ok) ==
    IF Paged(task.tool, task.pending) /\ ~IsRaise(task.resp)
    THEN [j \in 1..Fetches(task.resp.value, ok) |-> Logged(task.pending, IterationThread)]
    ELSE << >>

\* The event loop resumes the coroutine after its await.
Resume(t) ==
    /\ tasks[t].pc = "resume"
    /\ LET task == tasks[t]
           pages == IF Paged(task.tool, task.pending) /\ ~IsRaise(task.resp)
                    THEN Followups(task.resp.value) ELSE 0
       IN  \E ok \in 0..pages :
              tasks' = [tasks EXCEPT ![t] =
                          After([task EXCEPT !.reqs = @ \o PageRequests(task, ok)],
                                Continue(task.tool, task.args, task.pending, task.resp, ok))]
    /\ UNCHANGED << environ, files, _config, envReads, returned, secrets, response, report,
                    reportArgs, reportRequest >>

\* One step of one of the tool calls `callers`, the host calling a tool of `catalog`.
Step(callers, catalog) ==
    \E t \in callers :
       \/ \E tool \in catalog : \E a \in ArgsOf(tool) : Invoke(t, tool, a)
       \/ WorkerCall(t)
       \/ Resume(t)

\* Every tool of the catalog, in every environment.
Next == Step(1..MaxTasks, Tools)
Spec == Init /\ [][Next]_vars

\* Concurrent tool calls: one tool of each shape that shares state with
\* another call (the configuration singleton, the remote's secrets).
ConcurrentTools == {SecretTool, "list_accounts", "get_property", "check_auth_status"}
NextConcurrent == Step(Tasks, ConcurrentTools)
SpecConcurrent == Init /\ [][NextConcurrent]_vars

\* The tools that end in their first step, without a run_sync: called
\* one after another, in every environment, before and after the
\* configuration singleton is set.
LocalTools == {"get_tracking_snippet", "check_auth_status"}
NextLocal ==
    \E t \in Tasks : \E tool \in LocalTools : \E a \in ArgsOf(tool) : Invoke(t, tool, a)
SpecLocal == Init /\ [][NextLocal]_vars

\* A credential file is written to a path that had none, between two steps
\* of the server.
WriteFile ==
    /\ \E p \in Paths : \E content \in {"valid", "garbage"} :
          /\ files[p] = "absent"
          /\ files' = [files EXCEPT ![p] = content]
    /\ UNCHANGED << environ, _config, envReads, returned, tasks, secrets, response, report,
                    reportArgs, reportRequest >>

\* Tool calls, one of tools/admin.py and one of tools/data.py, in a process
\* whose credential files appear while it runs.
FileTools == {"get_property", "run_report"}
NextFile == Step(Tasks, FileTools) \/ WriteFile
SpecFile == Init /\ [][NextFile]_vars

\* ---------------------------------------------- get_config() called directly
InitConfig ==
    /\ environ \in Environs
    /\ files = [p \in Paths |-> "absent"]
    /\ _config = NoConfig
    /\ envReads = 0
    /\ returned = << >>
    /\ tasks = [t \in Tasks |-> IdleTask]
    /\ secrets = << >>
    /\ NoReport

\* get_config()
GetConfigCall ==
    /\ Len(returned) < MaxCalls
    /\ LET gc == GetConfig(_config, environ, envReads)
       IN  /\ _config' = gc.config
           /\ envReads' = envReads + gc.reads
           /\ returned' = Append(returned, [env |-> environ, out |-> gc.outcome])
    /\ UNCHANGED << environ, files, tasks, secrets, response, report, reportArgs,
                    reportRequest >>

\* The process changes GA_CREDENTIALS or GA_CREDENTIALS_PATH between two calls.
SetEnv ==
    /\ \E e \in Environs \ {environ} : environ' = e
    /\ UNCHANGED << files, _config, envReads, returned, tasks, secrets, response, report,
                    reportArgs, reportRequest >>

NextConfig == GetConfigCall \/ SetEnv
SpecConfig == InitConfig /\ [][NextConfig]_vars

\* ------------------------------------------------- _format_report(response)
Quiet ==
    /\ environ = [GA_CREDENTIALS |-> None, GA_CREDENTIALS_PATH |-> None]
    /\ files = [p \in Paths |-> "absent"]
    /\ _config = NoConfig
    /\ envReads = 0
    /\ returned = << >>
    /\ tasks = [t \in Tasks |-> IdleTask]
    /\ secrets = << >>

InitFormat ==
    /\ Quiet
    /\ response \in Responses
    /\ report = Unset
    /\ reportArgs = Unset
    /\ reportRequest = Unset

Format ==
    /\ report = Unset
    /\ report' = FormatReport(response)
    /\ UNCHANGED << environ, files, _config, envReads, returned, tasks, secrets, response,
                    reportArgs, reportRequest >>

SpecFormat == InitFormat /\ [][Format]_vars

\* ------------------------------------- the request data.run_report builds
InitReport ==
    /\ Quiet
    /\ response = Unset
    /\ report = Unset
    /\ reportArgs \in ReportArgs
    /\ reportRequest = Unset

BuildRequest ==
    /\ reportRequest = Unset
    /\ reportRequest' = RunReportRequest(reportArgs)
    /\ UNCHANGED << environ, files, _config, envReads, returned, tasks, secrets, response,
                    report, reportArgs >>

SpecReport == InitReport /\ [][BuildRequest]_vars

\* ================================================================ claims
\* What the claims say of a call that has ended.
Ended(t) == tasks[t].pc = "done"
\* The call returned exactly the setup guide.
ReturnedGuide(o) == o.kind = "return" /\ o.value.fmt = "plain" /\ o.value.text = SETUP_GUIDE
\* The requests of a call that run_sync handed to a worker thread.
MethodCalls(t) == SelectSeq(tasks[t].reqs, LAMBDA r : r.thread = "worker")

\* The file the configured path (GA_CREDENTIALS_PATH or the default) names.
ConfiguredFile ==
    CASE environ.GA_CREDENTIALS_PATH = None -> DEFAULT_CREDENTIALS_PATH
      [] environ.GA_CREDENTIALS_PATH = "~/ga.json" -> "/home/user/ga.json"
      [] OTHER -> None
\* The missing-configuration scenarios: no inline credential and no file at
\* the configured or default path, or an inline credential that is no JSON.
MissingConfiguration ==
    \/ /\ environ.GA_CREDENTIALS = None
       /\ ConfiguredFile # None
       /\ files[ConfiguredFile] = "absent"
    \/ environ.GA_CREDENTIALS = "{not json"
\* Valid credentials are configured: a service-account key inline, or none
\* inline and a key file at the configured path.
Configured ==
    /\ ConfiguredFile # None
    /\ \/ environ.GA_CREDENTIALS = SA_KEY
       \/ environ.GA_CREDENTIALS \in {None, ""} /\ files[ConfiguredFile] = "valid"

\* C1: in every missing-configuration scenario, every tool behind
\* with_setup_guide returns exactly the setup guide and does not raise.
C1_GuideInEveryScenario ==
    \A t \in Tasks :
        (Ended(t) /\ Wrapped(tasks[t].tool) /\ MissingConfiguration)
            => ReturnedGuide(tasks[t].outcome)

\* C2: a tool behind with_setup_guide that fails with anything but the
\* not-configured failure ends with that same failure: a failure of the client
\* method is the call's outcome, and so is any failure of the wrapped function.
C2_OtherFailuresPropagate ==
    /\ [](\A t \in Tasks :
            (Ended(t) /\ Wrapped(tasks[t].tool) /\ IsRaise(tasks[t].admin)
                /\ tasks[t].admin.type # "NotConfiguredError")
                => tasks[t].outcome = tasks[t].admin)
    /\ [][\A t \in Tasks :
            (tasks[t].pc = "resume" /\ IsRaise(tasks[t].resp) /\ Wrapped(tasks[t].tool))
                => (tasks'[t] = tasks[t]
                    \/ (tasks'[t].pc = "done" /\ tasks'[t].outcome = tasks[t].resp))]_vars
\* A wrapped tool ended with the remote's failure.
C2_Witness ==
    \E t \in Tasks :
        Ended(t) /\ Wrapped(tasks[t].tool) /\ tasks[t].reqs # << >>
            /\ tasks[t].outcome = ApiError

\* C3, as claimed: no call makes more than one request of the remote.
C3_AtMostOneRequest == \A t \in Tasks : Len(tasks[t].reqs) <= 1
\* C3, amended: a call hands at most one client method to run_sync, and
\* get_measurement_protocol_secret at most two, a list and then a create, so
\* no method is handed over twice; only the calls that iterate a pager make
\* further requests, the fetches of its follow-up pages.
C3_OneMethodCall ==
    \A t \in Tasks :
        LET task == tasks[t]
            calls == MethodCalls(t)
        IN  /\ task.tool # SecretTool => Len(calls) <= 1
            /\ task.tool = SecretTool =>
                 /\ Len(calls) <= 2
                 /\ Len(calls) >= 1 => calls[1].method = "list_measurement_protocol_secrets"
                 /\ Len(calls) = 2 => calls[2].method = "create_measurement_protocol_secret"
            /\ task.tool \notin ListTools \cup {SecretTool} => Len(task.reqs) <= 1
\* get_measurement_protocol_secret ended after a list and a create.
C3_Witness ==
    \E t \in Tasks :
        Ended(t) /\ tasks[t].tool = SecretTool /\ Len(MethodCalls(t)) = 2
            /\ ~IsRaise(tasks[t].outcome)

\* The first of the direct get_config() calls that returned, 0 when none did.
FirstReturn ==
    LET ok == {i \in 1..Len(returned) : ~IsRaise(returned[i].out)}
    IN  IF ok = {} THEN 0 ELSE CHOOSE i \in ok : \A j \in ok : i <= j

\* C4, as claimed: every get_config() call after the first ends as the first
\* did, and the environment is read once.
C4_SameAsFirstCall ==
    /\ envReads <= 1
    /\ \A i \in 2..Len(returned) : returned[i].out = returned[1].out
\* C4, amended: every call after the first one that returned returns the
\* object that call made, whatever the environment has become, and the
\* environment is not read again; a call in which Config.from_env raises caches
\* nothing, and the next call reads the environment again.
C4_CachedAfterFirstReturn ==
    LET k == FirstReturn
    IN  IF k = 0
        THEN envReads = Len(returned) /\ _config = NoConfig
        ELSE /\ envReads = k
             /\ returned[k].out.value.oid = k
             /\ _config = returned[k].out.value
             /\ \A i \in k..Len(returned) : returned[i].out = returned[k].out
\* Two calls returned the same object although the environment of the
\* second differed in both variables from that of the first.
C4_Witness ==
    \E i, j \in 1..Len(returned) :
        /\ i < j
        /\ ~IsRaise(returned[i].out)
        /\ returned[j].out = returned[i].out
        /\ returned[j].env.GA_CREDENTIALS # returned[i].env.GA_CREDENTIALS
        /\ returned[j].env.GA_CREDENTIALS_PATH # returned[i].env.GA_CREDENTIALS_PATH

\* The calls whose get_config() returned.
Observers == {t \in Tasks : tasks[t].pc # "idle" /\ tasks[t].config.kind = "return"}

\* C5: whatever the interleaving of concurrent tool calls, _config is never
\* overwritten once it is set, and every call observes the one configuration
\* object, which is the singleton.
C5_SingleInitialisation ==
    /\ [][_config # NoConfig => _config' = _config]_vars
    /\ [](\A t \in Observers : tasks[t].config.value = _config)
    /\ [](\A t, u \in Observers : tasks[t].config.value.oid = tasks[u].config.value.oid)
\* Two calls that are both in flight observed the configuration.
C5_Witness ==
    \E t, u \in Observers :
        t # u /\ tasks[t].pc \in {"worker", "resume"} /\ tasks[u].pc \in {"worker", "resume"}

\* C6: every request to the remote is made on a worker thread, the fetches of
\* follow-up pages included.
C6_AllRequestsOnWorker ==
    \A t \in Tasks : \A i \in 1..Len(tasks[t].reqs) : tasks[t].reqs[i].thread = "worker"

\* The headers and the rows of the response being formatted.
Headers == response.dimension_headers \o response.metric_headers
\* The positions of a row that zip pairs: those with a header and a value.
Paired(i) == 1..Min(Len(Headers), Len(RowValues(response.rows[i])))
\* The last paired position of row i whose header is h.
LastAt(i, h) ==
    CHOOSE j \in Paired(i) : Headers[j] = h /\ \A k \in Paired(i) : Headers[k] = h => k <= j

\* C7, as claimed: the headers are the dimension headers then the metric
\* headers, there is one mapping per row, in order, and the mapping of a row
\* gives the header at each position j the row's value at position j.
C7_ValueAtEveryPosition ==
    report # Unset =>
        /\ report.headers = Headers
        /\ Len(report.rows) = Len(response.rows)
        /\ \A i \in 1..Len(response.rows) : \A j \in 1..Len(Headers) :
              /\ j <= Len(RowValues(response.rows[i]))
              /\ Headers[j] \in DOMAIN report.rows[i]
              /\ report.rows[i][Headers[j]] = RowValues(response.rows[i])[j]
\* C7, amended: headers and rows as claimed, row_count is the response's, and
\* the mapping of a row has the header names at the positions that have a
\* value as its keys, each with the row's value at the last such position of
\* that name: a header past the row's values has no entry, and of two headers
\* with one name the later one's value stands.
C7_LastValuePerName ==
    report # Unset =>
        /\ report.headers = Headers
        /\ report.row_count = response.row_count
        /\ Len(report.rows) = Len(response.rows)
        /\ \A i \in 1..Len(response.rows) :
              /\ DOMAIN report.rows[i] = {Headers[j] : j \in Paired(i)}
              /\ \A h \in DOMAIN report.rows[i] :
                    report.rows[i][h] = RowValues(response.rows[i])[LastAt(i, h)]
\* A formatted report with two headers of one name, one row that has a value
\* for both and one row that has a value for the first only.
C7_Witness ==
    /\ report # Unset
    /\ Len(Headers) = 2 /\ Headers[1] = Headers[2]
    /\ \E i, k \in 1..Len(response.rows) :
          /\ Len(RowValues(response.rows[i])) = 2
          /\ report.rows[i][Headers[1]] = RowValues(response.rows[i])[2]
          /\ Len(RowValues(response.rows[k])) = 1

\* The one exact-match filter on the given field and value.
ExactFilter(name, value) ==
    << [filter |-> [field_name |-> name,
                    string_filter |-> [value |-> value, match_type |-> "EXACT"]]] >>
Supplied(s) == s # None

\* C8, as claimed: the request carries the one exact-match filter whenever
\* both filter arguments are supplied, and no filter otherwise.
C8_FilterWhenBothSupplied ==
    reportRequest # Unset =>
        reportRequest.dimension_filter =
            IF Supplied(reportArgs.dimension_filter_name)
                 /\ Supplied(reportArgs.dimension_filter_value)
            THEN ExactFilter(reportArgs.dimension_filter_name,
                             reportArgs.dimension_filter_value)
            ELSE << >>
\* C8, amended: the request carries the one exact-match filter whenever both
\* filter arguments are supplied and neither is the empty string, and no
\* filter when either is missing or empty.
C8_FilterWhenBothNonEmpty ==
    reportRequest # Unset =>
        reportRequest.dimension_filter =
            IF /\ Supplied(reportArgs.dimension_filter_name)
               /\ Supplied(reportArgs.dimension_filter_value)
               /\ reportArgs.dimension_filter_name # ""
               /\ reportArgs.dimension_filter_value # ""
            THEN ExactFilter(reportArgs.dimension_filter_name,
                             reportArgs.dimension_filter_value)
            ELSE << >>
\* A request built with its filter attached.
C8_Witness ==
    /\ reportRequest # Unset
    /\ reportRequest.dimension_filter = ExactFilter("country", "US")

\* A call of create_custom_dimension or create_custom_metric with a string
\* that names no member of the enumeration it is looked up in.
BadEnum(t) ==
    \/ tasks[t].tool = "create_custom_dimension" /\ tasks[t].args.scope \notin DimensionScope
    \/ /\ tasks[t].tool = "create_custom_metric"
       /\ \/ tasks[t].args.scope \notin MetricScope
          \/ tasks[t].args.unit \notin MeasurementUnit

\* C9: with valid credentials configured, such a call is over when its first
\* step is, with a KeyError, and has made no request of the remote.
C9_LookupFailsBeforeAnyCall ==
    \A t \in Tasks :
        (tasks[t].pc # "idle" /\ BadEnum(t) /\ Configured)
            => /\ Ended(t)
               /\ IsRaise(tasks[t].outcome)
               /\ tasks[t].outcome.type = "KeyError"
               /\ tasks[t].reqs = << >>
\* create_custom_dimension ended so for scope "INVALID".
C9_Witness ==
    \E t \in Tasks :
        /\ Ended(t) /\ Configured
        /\ tasks[t].tool = "create_custom_dimension" /\ tasks[t].args.scope = "INVALID"
        /\ tasks[t].outcome = Raise("KeyError", "INVALID")

\* The remote answered the call's list request with nothing at all.
EmptyResult(t) ==
    /\ ~IsRaise(tasks[t].resp)
    /\ tasks[t].resp.value.first = << >>
    /\ tasks[t].resp.value.rest = << >>
\* The call returned its "No ... found" sentence.
ReturnedNoneFound(t) ==
    /\ tasks[t].outcome.kind = "return"
    /\ tasks[t].outcome.value.fmt = "plain"
    /\ tasks[t].outcome.value.text = NoneFound(tasks[t].tool, tasks[t].args)

\* C10: on an empty result the list function of tools/admin.py returns the
\* empty list and the tool its "No ... found" sentence, neither raises; on a
\* result that is not empty the tool never returns that sentence (it returns
\* the formatted list, or the failure of a follow-up page).
C10_EmptyListMessage ==
    \A t \in Tasks :
        (Ended(t) /\ tasks[t].tool \in ListTools /\ tasks[t].reqs # << >>
            /\ ~IsRaise(tasks[t].resp))
            => IF EmptyResult(t)
               THEN tasks[t].admin = Return(<< >>) /\ ReturnedNoneFound(t)
               ELSE /\ ~ReturnedNoneFound(t)
                    /\ tasks[t].outcome.kind = "return" =>
                          /\ tasks[t].outcome.value.fmt = "json"
                          /\ Len(tasks[t].outcome.value.data)
                               = Len(tasks[t].resp.value.first) + Len(tasks[t].resp.value.rest)
\* list_properties returned its sentence for an account without properties.
C10_Witness ==
    \E t \in Tasks :
        /\ Ended(t) /\ tasks[t].tool = "list_properties" /\ tasks[t].reqs # << >>
        /\ EmptyResult(t)
        /\ tasks[t].outcome = Return(Plain("No properties found for account 123."))
\* The number of places of str at which sub stands.
Count(sub, str) ==
    Cardinality({i \in 1..(Len(str) - Len(sub) + 1) : SubSeq(str, i, i + Len(sub) - 1) = sub})
\* The first place of str, at or after from, at which sub stands.
Find(sub, str, from) ==
    CHOOSE i \in from..Len(str) :
        /\ SubSeq(str, i, i + Len(sub) - 1) = sub
        /\ \A k \in from..(i - 1) : SubSeq(str, k, k + Len(sub) - 1) # sub
\* The text of str between the first `open` and the first `close` after it.
Between(str, open, close) ==
    LET start == Find(open, str, 1) + Len(open)
    IN  SubSeq(str, start, Find(close, str, start) - 1)
\* The URL of the snippet's script element, and its gtag('config', ...) call.
ScriptSource(html) == Between(html, "<script async src=\"", "\"")
ConfigCall(html) == "gtag('config'" \o Between(html, "gtag('config'", ";")
\* A call of get_tracking_snippet.
IsSnippet(t) == tasks[t].tool = "get_tracking_snippet"

\* C11: get_tracking_snippet is over in its first step and returns a text
\* that has the measurement id once in the URL of the script element and
\* once in the gtag('config', ...) call; two calls with one id return one
\* text, whatever the configuration is and whether or not it has been read;
\* the call reads no configuration, resolves no credential, makes no request
\* of the remote and leaves the singleton, the environment, the files and the
\* remote as they are.
C11_SnippetIsPure ==
    /\ [](\A t \in Tasks : IsSnippet(t) =>
            /\ Ended(t)
            /\ tasks[t].outcome.kind = "return"
            /\ tasks[t].outcome.value.fmt = "plain"
            /\ Count(tasks[t].args.id, ScriptSource(tasks[t].outcome.value.text)) = 1
            /\ Count(tasks[t].args.id, ConfigCall(tasks[t].outcome.value.text)) = 1
            /\ Count(tasks[t].args.id, tasks[t].outcome.value.text) = 2
            /\ tasks[t].reqs = << >>
            /\ tasks[t].config = Absent
            /\ tasks[t].creds = Absent)
    /\ [](\A t, u \in Tasks :
            (IsSnippet(t) /\ IsSnippet(u) /\ tasks[t].args.id = tasks[u].args.id)
                => tasks[t].outcome = tasks[u].outcome)
    /\ [][\A t \in Tasks :
            (tasks[t].pc = "idle" /\ tasks'[t].tool = "get_tracking_snippet")
                => UNCHANGED << environ, files, _config, envReads, secrets >>]_vars
\* The snippet was returned for "G-ABC123" where nothing is configured, in a
\* process whose check_auth_status has read the configuration.
C11_Witness ==
    /\ MissingConfiguration
    /\ _config # NoConfig
    /\ \E t, u \in Tasks :
          /\ t # u /\ IsSnippet(t) /\ Ended(t)
          /\ tasks[t].outcome = Return(Plain(Snippet("G-ABC123")))
          /\ tasks[u].tool = "check_auth_status" /\ Ended(u)

\* A call that resolves credentials: every tool but get_tracking_snippet.
Resolves(t) == tasks[t].pc # "idle" /\ ~IsSnippet(t)
\* GA_CREDENTIALS carries a payload.
InlinePayload == Truthy(environ.GA_CREDENTIALS)

\* C12: with a payload in GA_CREDENTIALS no path is tested for a file, and a
\* service-account key there is the credential; a credential from a file is
\* from the file at the configured or default path and is loaded only when
\* there is no payload; and credential resolution fails in one way only, with
\* the not-configured failure that carries the setup guide.
C12_InlineThenFileElseGuide ==
    \A t \in Tasks : Resolves(t) =>
        LET c == tasks[t].creds
        IN  /\ InlinePayload => tasks[t].probed = {}
            /\ environ.GA_CREDENTIALS = SA_KEY => c = Return(Credentials("GA_CREDENTIALS"))
            /\ (c.kind = "return" /\ c.value.source # "GA_CREDENTIALS")
                   => ~InlinePayload /\ c.value.source = ConfiguredFile
            /\ IsRaise(c) => c = NotConfiguredError

\* Some call has returned the setup guide.
GuideReturned == \E u \in Tasks : Ended(u) /\ ReturnedGuide(tasks[u].outcome)
\* The call's credentials are those of the file at the configured path.
FromConfiguredFile(task) ==
    /\ task.config.kind = "return"
    /\ task.creds = Return(Credentials(task.config.value.credentials_path))
    /\ task.probed = {task.config.value.credentials_path}

\* C13: a call made after another call returned the setup guide, when a
\* service-account key file stands at the configured path, tests that path
\* again, loads its credentials from that file and goes on to its request of
\* the remote; and a call made while there still is no file returns the guide
\* again.
C13_GuideIsNotSticky ==
    [][\A t \in Tasks :
          (tasks[t].pc = "idle" /\ tasks'[t].pc # "idle" /\ GuideReturned)
              => /\ _config # NoConfig
                 /\ tasks'[t].config = Return(_config)
                 /\ files[_config.credentials_path] = "valid"
                       => /\ FromConfiguredFile(tasks'[t])
                          /\ tasks'[t].pc = "worker"
                          /\ tasks'[t].pending =
                                Request(MethodOf(tasks'[t].tool),
                                        ResourceOf(tasks'[t].tool, tasks'[t].args))
                 /\ files[_config.credentials_path] = "absent"
                       => /\ tasks'[t].pc = "done"
                          /\ ReturnedGuide(tasks'[t].outcome)]_vars
\* A call returned the guide, and a later call, made after the file was
\* written, got its answer from the remote.
C13_Witness ==
    \E u, t \in Tasks :
        /\ u < t
        /\ Ended(u) /\ ReturnedGuide(tasks[u].outcome)
        /\ Ended(t) /\ FromConfiguredFile(tasks[t])
        /\ Len(tasks[t].reqs) = 1
        /\ tasks[t].outcome.kind = "return" /\ tasks[t].outcome.value.fmt = "json"

\* The method of the call's latest run_sync, None before its first.
LastMethod(t) == IF tasks[t].pending = Absent THEN None ELSE tasks[t].pending.method
\* The call awaits, or has back, the answer to its list of the secrets.
Listing(t) ==
    tasks[t].tool = SecretTool /\ LastMethod(t) = "list_measurement_protocol_secrets"
Creating(t) == LastMethod(t) = "create_measurement_protocol_secret"
\* The requests the call has made so far that write on the remote.
Writes(t) ==
    SelectSeq(tasks[t].reqs, LAMBDA r : r.method \notin {"list_measurement_protocol_secrets"})
NoSecrets == Pager(<< >>)

\* C14: get_measurement_protocol_secret hands the create method to run_sync
\* only straight after its list request for the same data stream was
\* answered with no secrets; when the list is answered with secrets the call
\* ends there, with the first of them (or with the failure of a follow-up
\* page), and has made no request but the list and its pages; and the
\* secrets of the stream change in no step but the worker's create.
C14_CreateOnlyAfterEmptyList ==
    /\ [](\A t \in Tasks : Creating(t) =>
            /\ tasks[t].tool = SecretTool
            /\ tasks[t].reqs[1] =
                  Logged(Request("list_measurement_protocol_secrets",
                                 tasks[t].pending.resource), "worker")
            /\ Len(Writes(t)) <= 1
            /\ tasks[t].pc = "worker" => tasks[t].resp = Return(NoSecrets) /\ Writes(t) = << >>)
    /\ [](\A t \in Tasks : (Listing(t) /\ tasks[t].pc \in {"resume", "done"}) =>
            /\ Writes(t) = << >>
            /\ (Ended(t) /\ ~IsRaise(tasks[t].resp)) =>
                  /\ tasks[t].resp.value.first # << >>
                  /\ tasks[t].outcome \in
                        {Return(FormatJson(ProtoToDict(tasks[t].resp.value.first[1]))),
                         ApiError})
    /\ [][\A t \in Tasks :
            (Listing(t) /\ tasks[t].pc = "resume" /\ tasks[t].resp = Return(NoSecrets)
                /\ tasks'[t] # tasks[t])
                => /\ tasks'[t].pc = "worker"
                   /\ tasks'[t].pending =
                         Request("create_measurement_protocol_secret",
                                 tasks[t].pending.resource)]_vars
    /\ [][secrets' # secrets =>
            \E t \in Tasks :
                /\ tasks[t].pc = "worker" /\ Creating(t)
                /\ tasks'[t].pc = "resume"
                /\ secrets' = Append(secrets, tasks'[t].resp.value)]_vars
\* A call found a secret listed, returned it and made no other request.
C14_Witness ==
    \E t \in Tasks :
        /\ Listing(t) /\ Ended(t)
        /\ secrets # << >>
        /\ tasks[t].resp = Return(Pager(secrets))
        /\ tasks[t].outcome = Return(FormatJson(ProtoToDict(secrets[1])))
        /\ Writes(t) = << >>

\* The calls of get_measurement_protocol_secret that returned.
GotSecret ==
    {t \in Tasks : tasks[t].tool = SecretTool /\ Ended(t) /\ tasks[t].outcome.kind = "return"}

\* C15: on a data stream that starts without a secret, the calls of
\* get_measurement_protocol_secret, however they interleave, create one
\* secret at most between them and all return that one.
C15_AtMostOneSecret ==
    /\ Len(secrets) <= 1
    /\ \A t, u \in GotSecret : tasks[t].outcome = tasks[u].outcome

\* A call of delete_data_stream or delete_key_event.
Deletes(t) == tasks[t].tool \in DeleteTools
\* The confirmation sentence of the call, and the one delete request it names.
Confirmation(t) ==
    IF tasks[t].tool = "delete_data_stream"
    THEN Return(Plain("Data stream " \o tasks[t].args.sub \o " deleted."))
    ELSE Return(Plain("Key event " \o tasks[t].args.sub \o " deleted."))
DeleteRequest(t) ==
    IF tasks[t].tool = "delete_data_stream"
    THEN [method |-> "delete_data_stream", thread |-> "worker",
          resource |-> "properties/" \o tasks[t].args.id \o "/dataStreams/" \o tasks[t].args.sub]
    ELSE [method |-> "delete_key_event", thread |-> "worker",
          resource |-> "properties/" \o tasks[t].args.id \o "/keyEvents/" \o tasks[t].args.sub]

\* C16: a delete tool that returned its "... deleted." sentence has made one
\* request, the delete of the stream or key event it was called for, and the
\* remote answered it without error; a delete tool that did not return the
\* sentence returned the setup guide or raised; and when the remote fails the
\* delete, the call's next step ends it with that failure.
C16_ConfirmationAfterDelete ==
    /\ [](\A t \in Tasks : Deletes(t) =>
            /\ tasks[t].pc # "done" => tasks[t].outcome = Absent
            /\ Ended(t) =>
                 IF tasks[t].outcome = Confirmation(t)
                 THEN /\ tasks[t].reqs = << DeleteRequest(t) >>
                      /\ tasks[t].resp.kind = "return"
                 ELSE \/ IsRaise(tasks[t].outcome)
                      \/ ReturnedGuide(tasks[t].outcome) /\ tasks[t].reqs = << >>
            /\ (Ended(t) /\ IsRaise(tasks[t].resp)) => tasks[t].outcome = tasks[t].resp)
    /\ [][\A t \in Tasks :
            (Deletes(t) /\ tasks[t].pc = "resume" /\ IsRaise(tasks[t].resp)
                /\ tasks'[t] # tasks[t])
                => /\ tasks'[t].pc = "done"
                   /\ tasks'[t].outcome = tasks[t].resp
                   /\ tasks'[t].reqs = tasks[t].reqs]_vars
\* delete_key_event returned its sentence for key event 8 after its request.
C16_Witness ==
    \E t \in Tasks :
        /\ Ended(t) /\ tasks[t].tool = "delete_key_event" /\ tasks[t].args.sub = "8"
        /\ tasks[t].outcome = Return(Plain("Key event 8 deleted."))
        /\ tasks[t].reqs = << [method |-> "delete_key_event", thread |-> "worker",
                                resource |-> "properties/123/keyEvents/8"] >>

\* A call of check_auth_status, and the status document it returned.
IsStatus(t) == tasks[t].tool = "check_auth_status"
StatusOf(t) == tasks[t].outcome.value.data
\* No credential source is present: no payload, and no file at the path.
NoSource ==
    /\ ~InlinePayload
    /\ ConfiguredFile # None
    /\ files[ConfiguredFile] = "absent"

\* C17: check_auth_status is over in its first step, has made no request of
\* the remote and has returned, never raised, a status document: with valid
\* credentials configured, authenticated = true with the service account
\* email, the project id and the scopes; otherwise authenticated = false and
\* a reason, which is the message of whatever credential resolution raised:
\* the setup guide when no source is present, the parser's message when the
\* payload is not JSON.
C17_StatusNeverRaises ==
    \A t \in Tasks : IsStatus(t) =>
        /\ Ended(t)
        /\ tasks[t].reqs = << >>
        /\ tasks[t].outcome.kind = "return"
        /\ tasks[t].outcome.value.fmt = "json"
        /\ IF Configured
           THEN /\ StatusOf(t).authenticated = TRUE
                /\ DOMAIN StatusOf(t) =
                      {"authenticated", "service_account_email", "project_id", "scopes"}
                /\ StatusOf(t).service_account_email = tasks[t].creds.value.service_account_email
                /\ StatusOf(t).project_id = tasks[t].creds.value.project_id
                /\ StatusOf(t).scopes = SCOPES
           ELSE /\ StatusOf(t).authenticated = FALSE
                /\ DOMAIN StatusOf(t) = {"authenticated", "reason"}
                /\ IsRaise(tasks[t].creds)
                /\ StatusOf(t).reason = tasks[t].creds.msg
                /\ NoSource => StatusOf(t).reason = SETUP_GUIDE
                /\ (environ.GA_CREDENTIALS = "{not json" /\ ConfiguredFile # None)
                      => /\ tasks[t].creds.type = "JSONDecodeError"
                         /\ StatusOf(t).reason # SETUP_GUIDE
\* check_auth_status returned authenticated = false with the parser's message
\* for a payload that is not JSON.
C17_Witness ==
    \E t \in Tasks :
        /\ IsStatus(t) /\ Ended(t)
        /\ environ.GA_CREDENTIALS = "{not json"
        /\ tasks[t].outcome =
              Return(FormatJson([authenticated |-> FALSE,
                                 reason |-> "Expecting property name enclosed in double quotes"]))

====
